---------------------------- MODULE Spec2Model ----------------------------
(***************************************************************************)
(* A model of src/src/main.rs: the frame loop of the pixel-perfect canvas, *)
(* the mouse-to-world mapping, the keyboard driven player and the flares.  *)
(*                                                                         *)
(* One frame is: the window/input substrate delivers its events (pc =      *)
(* "input"), the five systems of the Update schedule run, each once, in an *)
(* order the schedule does not fix (pc = "update"), the deferred commands  *)
(* are applied, the physics substrate steps (pc = "physics") and the frame *)
(* ends.                                                                   *)
(*                                                                         *)
(* f32 values are modelled exactly: a coordinate is a reduced fraction     *)
(* <<n, d>>, a velocity is <<cx, cy, n>> standing for (cx, cy) / sqrt(n),  *)
(* an angle is the primitive integer vector it points along.               *)
(***************************************************************************)
EXTENDS Integers, Sequences, FiniteSets

(***************************************************************************)
(* Program constants.                                                      *)
(***************************************************************************)
RES_HEIGHT == 80
RES_WIDTH == 128
INIT_MULTIPLIER == 10
SPEED == 100
FLARE_X == 30

(***************************************************************************)
(* Bounds of the model.                                                    *)
(***************************************************************************)
MaxResizeEvents == 2   \* WindowResized events delivered in one frame
MaxKeyEvents == 3      \* KeyboardInput events delivered in one frame
MaxEdges == 3          \* released-to-pressed edges of the fire key in a run
MaxCells == 1          \* the player stays within MaxCells physics steps of the origin

(***************************************************************************)
(* Input sets.                                                             *)
(***************************************************************************)
Widths == {100, 640, 1000, 1280}
Heights == {60, 400, 800}
AimWindows == {<<1280, 800>>, <<1000, 600>>}
CursorFractions == {<<0, 1>>, <<1, 2>>}   \* of the window's width, height
MoveKeys == {"KeyA", "KeyD", "KeyW", "KeyS"}
FireKeys == {"KeyF", "KeyD"}
Keys == MoveKeys \cup {"KeyF"}
ButtonStates == {"Pressed", "Released"}
CameraStates == {"ready", "no_viewport", "ndc_nan"}
Systems == {"fit_canvas", "move_player", "update_mouse_world_pos",
            "rotate_to_mouse", "spawn_flares"}

(***************************************************************************)
(* Exact arithmetic.                                                       *)
(***************************************************************************)
Abs(x) == IF x < 0 THEN -x ELSE x
Sgn(x) == IF x < 0 THEN -1 ELSE IF x > 0 THEN 1 ELSE 0

RECURSIVE GCD(_, _)
GCD(a, b) == IF b = 0 THEN a ELSE GCD(b, a % b)

\* floor division for any sign of n, d > 0
FloorDiv(n, d) == IF n >= 0 THEN n \div d ELSE -((-n + d - 1) \div d)

\* the fraction n / d (d # 0), reduced, with a positive denominator
Rat(n, d) ==
    LET g == GCD(Abs(n), Abs(d))
        s == IF d < 0 THEN -1 ELSE 1
    IN  <<(s * n) \div g, (s * d) \div g>>
RInt(n) == <<n, 1>>
RAdd(a, b) == Rat(a[1] * b[2] + b[1] * a[2], a[2] * b[2])
RSub(a, b) == Rat(a[1] * b[2] - b[1] * a[2], a[2] * b[2])
RMul(a, b) == Rat(a[1] * b[1], a[2] * b[2])
RDiv(a, b) == Rat(a[1] * b[2], a[2] * b[1])
RLess(a, b) == a[1] * b[2] < b[1] * a[2]
RMin(a, b) == IF RLess(b, a) THEN b ELSE a
RFloor(a) == FloorDiv(a[1], a[2])

VARIABLES
    pc,              \* "input" | "update" | "physics" | "end"
    pending,         \* systems of Update that have not run in this frame
    window,          \* logical size <<w, h>> of the primary window
    cursor,          \* <<>> (no cursor) or the cursor's <<x, y>> in window pixels
    camera,          \* state of MainCamera's projection
    resize_events,   \* WindowResized events fit_canvas has not read
    canvas,          \* Transform of the Canvas sprite
    mouse_world_pos, \* the MouseWorldPos resource
    pressed,         \* ButtonInput<KeyCode>.pressed
    just_pressed,    \* ButtonInput<KeyCode>.just_pressed
    velocity,        \* LinearVelocity of the player
    player,          \* Transform of the player
    commands,        \* spawns queued by spawn_flares, applied after Update
    flares,          \* Flare entities: sequence of [translation, at]
    log              \* what happened in this frame and in the run (history)

vars == <<pc, pending, window, cursor, camera, resize_events, canvas,
          mouse_world_pos, pressed, just_pressed, velocity, player,
          commands, flares, log>>


(***************************************************************************)
(* Values.                                                                 *)
(***************************************************************************)
NoCursor == <<>>
Vec2Zero == <<RInt(0), RInt(0)>>
Splat(s) == <<s, s, s>>
InWindow(win, pos) ==
    /\ 0 <= pos[1] /\ pos[1] < win[1]
    /\ 0 <= pos[2] /\ pos[2] < win[2]
CursorPositions(win) ==
    {<<(f[1] * win[1]) \div f[2], (g[1] * win[2]) \div g[2]>> :
        f \in CursorFractions, g \in CursorFractions}

(***************************************************************************)
(* fit_canvas: the scale one WindowResized event sets.                     *)
(***************************************************************************)
RMax(a, b) == IF RLess(a, b) THEN b ELSE a

FitScale_max(width, height) ==
    LET scale_x == RDiv(RInt(width), RInt(RES_WIDTH))
        scale_y == RDiv(RInt(height), RInt(RES_HEIGHT))
    IN  RFloor(RMax(scale_x, scale_y))

FitScale(width, height) ==
    LET scale_x == RDiv(RInt(width), RInt(RES_WIDTH))
        scale_y == RDiv(RInt(height), RInt(RES_HEIGHT))
    IN  RFloor(RMin(scale_x, scale_y))

\* the events fit_canvas computes a scale for, given the unread events and
\* the window: one per unread event
FitInputs_everyFrame(events, win) == IF events = <<>> THEN <<win>> ELSE events

FitInputs(events, win) == events

(***************************************************************************)
(* update_mouse_world_pos: the three fallible steps and the scaling.       *)
(* A result is [ok |-> BOOLEAN, val |-> ...].                              *)
(***************************************************************************)
Fail == [ok |-> FALSE, val |-> <<>>]
Ok(v) == [ok |-> TRUE, val |-> v]

\* Window::cursor_position
cursor_position(cur) == IF cur = NoCursor THEN Fail ELSE Ok(cur)

\* Camera::viewport_to_world_2d of MainCamera (default 2d orthographic
\* projection, one world unit per logical pixel, at the origin)
viewport_to_world_2d(cam, win, pos) ==
    IF cam = "no_viewport" THEN Fail
    ELSE LET rel_x == RDiv(RInt(pos[1]), RInt(win[1]))
             rel_y == RSub(RInt(1), RDiv(RInt(pos[2]), RInt(win[2])))
             ndc_x == RSub(RMul(rel_x, RInt(2)), RInt(1))
             ndc_y == RSub(RMul(rel_y, RInt(2)), RInt(1))
         IN  Ok(<<RMul(ndc_x, Rat(win[1], 2)), RMul(ndc_y, Rat(win[2], 2))>>)

\* Camera::world_to_ndc of MainCamera
world_to_ndc(cam, win, world) ==
    IF cam = "ndc_nan" THEN Fail
    ELSE Ok(<<RDiv(world[1], Rat(win[1], 2)), RDiv(world[2], Rat(win[2], 2))>>)

ScaleNdc(ndc) == <<RMul(ndc[1], RInt(RES_WIDTH)), RMul(ndc[2], RInt(RES_HEIGHT))>>

\* the pipeline with a failed step replaced by a default value
MappedPos_defaultOnFail(cam, win, cur) ==
    LET c == cursor_position(cur)
        w == IF c.ok THEN viewport_to_world_2d(cam, win, c.val) ELSE Fail
        n == IF w.ok THEN world_to_ndc(cam, win, w.val) ELSE Fail
    IN  IF n.ok THEN Ok(ScaleNdc(n.val)) ELSE Ok(Vec2Zero)

\* the pipeline with the cursor's viewport position reprojected as if it
\* were a world position
MappedPos_skipUnproject(cam, win, cur) ==
    LET c == cursor_position(cur)
        w == IF c.ok THEN viewport_to_world_2d(cam, win, c.val) ELSE Fail
        n == IF w.ok
             THEN world_to_ndc(cam, win, <<RInt(c.val[1]), RInt(c.val[2])>>)
             ELSE Fail
    IN  IF n.ok THEN Ok(ScaleNdc(n.val)) ELSE Fail

\* the value update_mouse_world_pos writes, or Fail when it returns early
MappedPos(cam, win, cur) ==
    LET c == cursor_position(cur)
        w == IF c.ok THEN viewport_to_world_2d(cam, win, c.val) ELSE Fail
        n == IF w.ok THEN world_to_ndc(cam, win, w.val) ELSE Fail
    IN  IF n.ok THEN Ok(ScaleNdc(n.val)) ELSE Fail

(***************************************************************************)
(* move_player: the velocity the key state gives.                          *)
(***************************************************************************)
Direction(keys) ==
    << (IF "KeyD" \in keys THEN 1 ELSE 0) - (IF "KeyA" \in keys THEN 1 ELSE 0),
       (IF "KeyW" \in keys THEN 1 ELSE 0) - (IF "KeyS" \in keys THEN 1 ELSE 0) >>

\* Vec2::normalize_or_zero, then * s: (x, y) * s / sqrt(x^2 + y^2)
NormalizeOrZeroTimes(d, s) ==
    LET n == d[1] * d[1] + d[2] * d[2]
    IN  IF n = 0 THEN <<0, 0, 1>> ELSE <<d[1] * s, d[2] * s, n>>

NewVelocity_unnormalized(keys, old) ==
    LET d == Direction(keys) IN <<d[1] * SPEED, d[2] * SPEED, 1>>

NewVelocity(keys, old) == NormalizeOrZeroTimes(Direction(keys), SPEED)

\* squared length of a velocity <<cx, cy, n>> = (cx, cy) / sqrt(n)
LengthSquared(v) == Rat(v[1] * v[1] + v[2] * v[2], v[3])

(***************************************************************************)
(* rotate_to_mouse: the angle atan2(dy, dx), as the primitive integer      *)
(* vector of that direction; atan2(0, 0) = 0 is the direction <<1, 0>>.    *)
(***************************************************************************)
Atan2(dy, dx) ==
    LET x == dx[1] * dy[2]
        y == dy[1] * dx[2]
        g == GCD(Abs(x), Abs(y))
    IN  IF g = 0 THEN <<1, 0>> ELSE <<x \div g, y \div g>>

Heading(target, translation) ==
    Atan2(RSub(target[2], RInt(translation[2])),
          RSub(target[1], RInt(translation[1])))

(***************************************************************************)
(* spawn_flares: the entities one run of the system queues.                *)
(***************************************************************************)
FlareTransform(player_translation) == <<FLARE_X, 0>>

SpawnedFlares_whileHeld(held, just, player_translation) ==
    IF "KeyF" \in held
    THEN <<[translation |-> FlareTransform(player_translation),
            at |-> player_translation]>>
    ELSE <<>>

SpawnedFlares(held, just, player_translation) ==
    IF "KeyF" \in just
    THEN <<[translation |-> FlareTransform(player_translation),
            at |-> player_translation]>>
    ELSE <<>>

(***************************************************************************)
(* The state after construction: main and setup.                           *)
(***************************************************************************)
FrameLog == [resizes |-> 0, scale_writes |-> 0, writes |-> {},
             mouse_fresh |-> FALSE, key_events |-> 0, edge_now |-> FALSE]

Init ==
    /\ pc = "input"
    /\ pending = {}
    /\ window = <<RES_WIDTH * INIT_MULTIPLIER, RES_HEIGHT * INIT_MULTIPLIER>>
    /\ cursor = NoCursor
    /\ camera = "no_viewport"
    /\ resize_events = <<>>
    /\ canvas = [translation |-> <<0, 0, 0>>, rotation |-> <<1, 0>>,
                 scale |-> Splat(1)]
    /\ mouse_world_pos = Vec2Zero
    /\ pressed = {}
    /\ just_pressed = {}
    /\ velocity = <<0, 0, 1>>
    /\ player = [translation |-> <<0, 0>>, rotation |-> <<1, 0>>]
    /\ commands = <<>>
    /\ flares = <<>>
    /\ log = [frame |-> FrameLog, edges |-> 0, edge_frames |-> 0,
              last_resize |-> <<>>]


(***************************************************************************)
(* The window/input substrate: events delivered before the schedule runs.  *)
(***************************************************************************)
Frame(field, value) == [log EXCEPT !.frame[field] = value]

\* a WindowResized event; a cursor the new window no longer covers has left
WindowResized(width, height) ==
    /\ pc = "input"
    /\ log.frame.resizes < MaxResizeEvents
    /\ window' = <<width, height>>
    /\ resize_events' = Append(resize_events, <<width, height>>)
    /\ cursor' = IF cursor # NoCursor /\ InWindow(<<width, height>>, cursor)
                 THEN cursor ELSE NoCursor
    /\ log' = [log EXCEPT !.frame.resizes = @ + 1,
                          !.last_resize = <<width, height>>]
    /\ UNCHANGED <<pc, pending, camera, canvas, mouse_world_pos, pressed,
                   just_pressed, velocity, player, commands, flares>>

CursorMoved(pos) ==
    /\ pc = "input"
    /\ pos \in CursorPositions(window)
    /\ cursor # pos
    /\ cursor' = pos
    /\ UNCHANGED <<pc, pending, window, camera, resize_events, canvas,
                   mouse_world_pos, pressed, just_pressed, velocity, player,
                   commands, flares, log>>

CursorLeft ==
    /\ pc = "input"
    /\ cursor # NoCursor
    /\ cursor' = NoCursor
    /\ UNCHANGED <<pc, pending, window, camera, resize_events, canvas,
                   mouse_world_pos, pressed, just_pressed, velocity, player,
                   commands, flares, log>>

\* the state MainCamera's computed projection is in during this frame
CameraChanged(c) ==
    /\ pc = "input"
    /\ camera # c
    /\ camera' = c
    /\ UNCHANGED <<pc, pending, window, cursor, resize_events, canvas,
                   mouse_world_pos, pressed, just_pressed, velocity, player,
                   commands, flares, log>>

\* one KeyboardInput event through ButtonInput::press / ButtonInput::release
KeyboardInput(key, state) ==
    /\ pc = "input"
    /\ log.frame.key_events < MaxKeyEvents
    /\ LET edge == state = "Pressed" /\ key \notin pressed
           fire == edge /\ key = "KeyF"
       IN  /\ fire => log.edges < MaxEdges
           /\ pressed' = IF state = "Pressed" THEN pressed \cup {key}
                         ELSE pressed \ {key}
           /\ just_pressed' = IF edge THEN just_pressed \cup {key}
                              ELSE just_pressed
           /\ log' = [log EXCEPT
                  !.frame.key_events = @ + 1,
                  !.frame.edge_now = @ \/ fire,
                  !.edges = IF fire THEN @ + 1 ELSE @,
                  !.edge_frames = IF fire /\ ~log.frame.edge_now
                                  THEN @ + 1 ELSE @]
    /\ UNCHANGED <<pc, pending, window, cursor, camera, resize_events, canvas,
                   mouse_world_pos, velocity, player, commands, flares>>

(***************************************************************************)
(* The Update schedule: each system runs once per frame, in any order.     *)
(***************************************************************************)
BeginUpdate ==
    /\ pc = "input"
    /\ pc' = "update"
    /\ pending' = Systems
    /\ UNCHANGED <<window, cursor, camera, resize_events, canvas,
                   mouse_world_pos, pressed, just_pressed, velocity, player,
                   commands, flares, log>>

Runs(system) ==
    /\ pc = "update"
    /\ system \in pending
    /\ pending' = pending \ {system}
    /\ pc' = pc

Wrote(system, fields) ==
    Frame("writes", log.frame.writes \cup {<<system, f>> : f \in fields})

fit_canvas ==
    /\ Runs("fit_canvas")
    /\ LET events == FitInputs(resize_events, window)
           n == Len(events)
       IN  IF n = 0
           THEN UNCHANGED <<canvas, log>>
           ELSE /\ canvas' = [canvas EXCEPT !.scale =
                                Splat(FitScale(events[n][1], events[n][2]))]
                /\ log' = [Wrote("fit_canvas", {"canvas.scale"}) EXCEPT
                              !.frame.scale_writes = @ + n]
    /\ resize_events' = <<>>
    /\ UNCHANGED <<window, cursor, camera, mouse_world_pos, pressed,
                   just_pressed, velocity, player, commands, flares>>

update_mouse_world_pos ==
    /\ Runs("update_mouse_world_pos")
    /\ LET r == MappedPos(camera, window, cursor)
       IN  IF r.ok
           THEN /\ mouse_world_pos' = r.val
                /\ log' = [Wrote("update_mouse_world_pos", {"mouse_world_pos"})
                              EXCEPT !.frame.mouse_fresh = TRUE]
           ELSE UNCHANGED <<mouse_world_pos, log>>
    /\ UNCHANGED <<window, cursor, camera, resize_events, canvas, pressed,
                   just_pressed, velocity, player, commands, flares>>

move_player ==
    /\ Runs("move_player")
    /\ velocity' = NewVelocity(pressed, velocity)
    /\ log' = Wrote("move_player", {"player.velocity"})
    /\ UNCHANGED <<window, cursor, camera, resize_events, canvas,
                   mouse_world_pos, pressed, just_pressed, player, commands,
                   flares>>

rotate_to_mouse ==
    /\ Runs("rotate_to_mouse")
    /\ player' = [player EXCEPT
                    !.rotation = Heading(mouse_world_pos, player.translation)]
    /\ log' = Wrote("rotate_to_mouse", {"player.rotation"})
    /\ UNCHANGED <<window, cursor, camera, resize_events, canvas,
                   mouse_world_pos, pressed, just_pressed, velocity, commands,
                   flares>>

spawn_flares ==
    /\ Runs("spawn_flares")
    /\ commands' = commands \o
                     SpawnedFlares(pressed, just_pressed, player.translation)
    /\ UNCHANGED <<window, cursor, camera, resize_events, canvas,
                   mouse_world_pos, pressed, just_pressed, velocity, player,
                   flares, log>>

\* the end of the schedule: the queued commands are applied
ApplyDeferred ==
    /\ pc = "update"
    /\ pending = {}
    /\ pc' = "physics"
    /\ flares' = flares \o commands
    /\ commands' = <<>>
    /\ UNCHANGED <<pending, window, cursor, camera, resize_events, canvas,
                   mouse_world_pos, pressed, just_pressed, velocity, player,
                   log>>

(***************************************************************************)
(* The physics substrate: the player is RigidBody::Dynamic, so the step    *)
(* integrates its velocities and writes its Transform, translation and     *)
(* rotation (AngularVelocity is zero).  The distance moved is abstracted   *)
(* to one cell along each axis the velocity points along, within MaxCells. *)
(***************************************************************************)
Clamp(x) == IF x > MaxCells THEN MaxCells ELSE IF x < -MaxCells THEN -MaxCells ELSE x

PhysicsStep ==
    /\ pc = "physics"
    /\ pc' = "end"
    /\ player' = [player EXCEPT
                    !.translation = <<Clamp(@[1] + Sgn(velocity[1])),
                                      Clamp(@[2] + Sgn(velocity[2]))>>,
                    !.rotation = @]
    /\ log' = Wrote("physics", {"player.translation", "player.rotation"})
    /\ UNCHANGED <<pending, window, cursor, camera, resize_events, canvas,
                   mouse_world_pos, pressed, just_pressed, velocity, commands,
                   flares>>

\* the frame ends: ButtonInput::clear, and the frame's history starts anew
EndFrame ==
    /\ pc = "end"
    /\ pc' = "input"
    /\ just_pressed' = {}
    /\ log' = [log EXCEPT !.frame = FrameLog]
    /\ UNCHANGED <<pending, window, cursor, camera, resize_events, canvas,
                   mouse_world_pos, pressed, velocity, player, commands,
                   flares>>

(***************************************************************************)
(* Specifications.  Spec is the frame loop under every input; SpecCanvas,  *)
(* SpecMouse, SpecMove and SpecFire are the same frame loop, all systems   *)
(* and the physics step included, with the inputs of one kind each, which  *)
(* keeps each state space small enough to explore in full.                 *)
(***************************************************************************)
FrameStep ==
    \/ BeginUpdate
    \/ fit_canvas
    \/ move_player
    \/ update_mouse_world_pos
    \/ rotate_to_mouse
    \/ spawn_flares
    \/ ApplyDeferred
    \/ PhysicsStep
    \/ EndFrame

NextCanvas ==
    \/ FrameStep
    \/ \E w \in Widths, h \in Heights : WindowResized(w, h)

NextMouse ==
    \/ FrameStep
    \/ \E s \in AimWindows : WindowResized(s[1], s[2])
    \/ \E pos \in CursorPositions(window) : CursorMoved(pos)
    \/ CursorLeft
    \/ \E c \in CameraStates : CameraChanged(c)

NextMove ==
    \/ FrameStep
    \/ \E k \in MoveKeys, st \in ButtonStates : KeyboardInput(k, st)

NextFire ==
    \/ FrameStep
    \/ \E k \in FireKeys, st \in ButtonStates : KeyboardInput(k, st)

Next ==
    \/ FrameStep
    \/ \E w \in Widths, h \in Heights : WindowResized(w, h)
    \/ \E pos \in CursorPositions(window) : CursorMoved(pos)
    \/ CursorLeft
    \/ \E c \in CameraStates : CameraChanged(c)
    \/ \E k \in Keys, st \in ButtonStates : KeyboardInput(k, st)

Spec == Init /\ [][Next]_vars
SpecCanvas == Init /\ [][NextCanvas]_vars
SpecMouse == Init /\ [][NextMouse]_vars
SpecMove == Init /\ [][NextMove]_vars
SpecFire == Init /\ [][NextFire]_vars


(***************************************************************************)
(* Where a frame stands.                                                   *)
(***************************************************************************)
HasRun(system) ==
    \/ pc \in {"physics", "end"}
    \/ pc = "update" /\ system \notin pending

WritersOf(field) == {w \in log.frame.writes : w[2] = field}

(***************************************************************************)
(* C1: once fit_canvas has handled a frame's WindowResized events, the     *)
(* last of them carrying (W, H), the Canvas scale is s on every axis,      *)
(* where s is the non-negative integer floor(min(W / 128, H / 80)): the    *)
(* largest s with 128 s <= W and 80 s <= H.  It is 0 when W < 128 or       *)
(* H < 80, 10 for 1280 x 800 and 5 for 640 x 400.                          *)
(***************************************************************************)
C1_ScaleIsFlooredMinRatio ==
    (HasRun("fit_canvas") /\ log.frame.resizes > 0) =>
        LET W == log.last_resize[1]
            H == log.last_resize[2]
            s == canvas.scale[1]
        IN  /\ canvas.scale = <<s, s, s>>
            /\ s \in Nat
            /\ RES_WIDTH * s <= W /\ RES_HEIGHT * s <= H
            /\ RES_WIDTH * (s + 1) > W \/ RES_HEIGHT * (s + 1) > H
            /\ (W < RES_WIDTH \/ H < RES_HEIGHT) => s = 0
            /\ (W = 1280 /\ H = 800) => s = 10
            /\ (W = 640 /\ H = 400) => s = 5

\* 1280 x 800 has been resized to 640 x 400 and the scale is 5
C1_Witness ==
    /\ HasRun("fit_canvas") /\ log.frame.resizes > 0
    /\ log.last_resize = <<640, 400>>
    /\ canvas.scale = <<5, 5, 5>>

\* a window narrower than the resolution has given scale 0
C1_WitnessZero ==
    /\ HasRun("fit_canvas") /\ log.frame.resizes > 0
    /\ log.last_resize[1] < RES_WIDTH /\ log.last_resize[2] >= RES_HEIGHT
    /\ canvas.scale = <<0, 0, 0>>

(***************************************************************************)
(* C2: fit_canvas writes the Canvas scale once per WindowResized event and *)
(* not at all in a frame without one; with every event read, the scale is  *)
(* the value of the most recent event (the initial 1 before any event),    *)
(* for any number of frames.                                               *)
(***************************************************************************)
C2_ScaleOnlyOnResize ==
    /\ log.frame.scale_writes =
          IF HasRun("fit_canvas") THEN log.frame.resizes ELSE 0
    /\ resize_events = <<>> =>
          canvas.scale = IF log.last_resize = <<>> THEN <<1, 1, 1>>
                         ELSE Splat(FitScale(log.last_resize[1],
                                             log.last_resize[2]))

\* fit_canvas has run in a frame without events, after an earlier resize
C2_Witness ==
    /\ pc = "end"
    /\ log.frame.resizes = 0 /\ log.frame.scale_writes = 0
    /\ log.last_resize = <<640, 400>>
    /\ canvas.scale = <<5, 5, 5>>

(***************************************************************************)
(* C3: a run of update_mouse_world_pos in which a step fails (no cursor    *)
(* position, the unprojection errs, the reprojection gives nothing) leaves *)
(* MouseWorldPos as it was.                                                *)
(***************************************************************************)
MappingStepFails ==
    \/ cursor = NoCursor
    \/ camera = "no_viewport"
    \/ camera = "ndc_nan"

C3_FailedStepKeepsValue ==
    [][ ( /\ pc = "update"
          /\ "update_mouse_world_pos" \in pending
          /\ "update_mouse_world_pos" \notin pending'
          /\ MappingStepFails )
        => ( /\ mouse_world_pos' = mouse_world_pos
             /\ log'.frame.mouse_fresh = log.frame.mouse_fresh
             /\ pc' = "update" ) ]_vars

\* the reprojection has failed with a cursor present and a mapped value kept
C3_Witness ==
    /\ pc = "update" /\ "update_mouse_world_pos" \notin pending
    /\ cursor # NoCursor /\ camera = "ndc_nan"
    /\ ~log.frame.mouse_fresh
    /\ mouse_world_pos # Vec2Zero

(***************************************************************************)
(* C4: in every frame update_mouse_world_pos runs before rotate_to_mouse:  *)
(* when the frame's update succeeded, the rotation the Update schedule     *)
(* leaves is the heading towards the value written in that frame.          *)
(***************************************************************************)
C4_ReaderUsesThisFramesValue ==
    (pc = "physics" /\ log.frame.mouse_fresh) =>
        player.rotation = Heading(mouse_world_pos, player.translation)

(***************************************************************************)
(* C5 as claimed: the number of flares spawned is the number of            *)
(* released-to-pressed edges of the fire key.                              *)
(***************************************************************************)
C5_FlaresEqualEdges ==
    pc = "end" => Len(flares) = log.edges

(***************************************************************************)
(* C5: the number of flares spawned is the number of frames in which a     *)
(* released-to-pressed edge of the fire key was delivered: one flare for a *)
(* press, one for a key held over any number of frames, none in a frame    *)
(* without an edge.                                                        *)
(***************************************************************************)
C5_FlaresEqualEdgeFrames ==
    Len(flares) + Len(commands) =
        log.edge_frames -
            (IF log.frame.edge_now /\ ~HasRun("spawn_flares") THEN 1 ELSE 0)

\* the key was pressed once and is still held, frames later: one flare
C5_Witness ==
    /\ pc = "end"
    /\ "KeyF" \in pressed /\ "KeyF" \notin just_pressed
    /\ log.edges = 1
    /\ Len(flares) = 1

(***************************************************************************)
(* C6: with the cursor at window pixel (0, 0) of a 1280 x 800 window, a    *)
(* successful update_mouse_world_pos sets MouseWorldPos to (-64, 40).      *)
(***************************************************************************)
C6_TopLeftMapsToSimulationCorner ==
    (log.frame.mouse_fresh /\ window = <<1280, 800>> /\ cursor = <<0, 0>>) =>
        mouse_world_pos = <<RInt(-(RES_WIDTH \div 2)), RInt(RES_HEIGHT \div 2)>>

(***************************************************************************)
(* C7: with the cursor at the centre (W / 2, H / 2) of the window, a       *)
(* successful update_mouse_world_pos sets MouseWorldPos to (0, 0), for     *)
(* every window size.                                                      *)
(***************************************************************************)
C7_CentreMapsToOrigin ==
    ( /\ log.frame.mouse_fresh
      /\ cursor # NoCursor
      /\ 2 * cursor[1] = window[1] /\ 2 * cursor[2] = window[2] )
    => mouse_world_pos = Vec2Zero

\* the centre of a window that is not the initial one has been mapped
C7_Witness ==
    /\ log.frame.mouse_fresh
    /\ window = <<1000, 600>> /\ cursor = <<500, 300>>
    /\ mouse_world_pos = Vec2Zero

(***************************************************************************)
(* C8: after move_player, the player's velocity has length 0 or SPEED: 0   *)
(* with no key held, SPEED with keys held that do not oppose each other    *)
(* (diagonals included), never more; it points where the keys point,       *)
(* whatever the velocity was before.                                       *)
(***************************************************************************)
C8_VelocityIsZeroOrSpeed ==
    HasRun("move_player") =>
        LET m == LengthSquared(velocity)
            held == pressed \cap MoveKeys
            opposed == {"KeyA", "KeyD"} \subseteq held
                       \/ {"KeyW", "KeyS"} \subseteq held
            x == (IF "KeyD" \in held THEN 1 ELSE 0)
                   - (IF "KeyA" \in held THEN 1 ELSE 0)
            y == (IF "KeyW" \in held THEN 1 ELSE 0)
                   - (IF "KeyS" \in held THEN 1 ELSE 0)
        IN  /\ m \in {RInt(0), RInt(SPEED * SPEED)}
            /\ held = {} => m = RInt(0)
            /\ (held # {} /\ ~opposed) => m = RInt(SPEED * SPEED)
            /\ Sgn(velocity[1]) = x /\ Sgn(velocity[2]) = y
            /\ (x # 0 /\ y # 0) => Abs(velocity[1]) = Abs(velocity[2])

\* a diagonal: two orthogonal keys held, velocity of length SPEED
C8_Witness ==
    /\ HasRun("move_player")
    /\ pressed = {"KeyW", "KeyD"}
    /\ velocity[1] # 0 /\ velocity[2] # 0
    /\ LengthSquared(velocity) = RInt(SPEED * SPEED)

(***************************************************************************)
(* C9: a flare is spawned at a fixed offset from the player: all flares    *)
(* have the same difference between their translation and the player's     *)
(* translation at the time of the press.                                   *)
(***************************************************************************)
C9_FlareAtOffsetFromPlayer ==
    \A i, j \in 1..Len(flares) :
        /\ flares[i].translation[1] - flares[i].at[1]
             = flares[j].translation[1] - flares[j].at[1]
        /\ flares[i].translation[2] - flares[i].at[2]
             = flares[j].translation[2] - flares[j].at[2]

(***************************************************************************)
(* C10: in a frame no field of a Transform is written by two systems; the  *)
(* Canvas scale is written by fit_canvas alone, and the Canvas translation *)
(* and rotation are never changed.                                         *)
(***************************************************************************)
C10_OneWriterPerField ==
    /\ \A w \in log.frame.writes : Cardinality(WritersOf(w[2])) = 1
    /\ \A w \in WritersOf("canvas.scale") : w[1] = "fit_canvas"
    /\ canvas.translation = <<0, 0, 0>>
    /\ canvas.rotation = <<1, 0>>

=============================================================================
